---- MODULE Spec2Model ----
(***************************************************************************)
(* A model of the myFlix movie API (greg-strom/movie_api): the Express     *)
(* routes of index.js and the login route of auth.js, over a document      *)
(* store holding the Users collection and a read-only Movies catalogue.    *)
(*                                                                         *)
(* Strings the code inspects (Username, Password, Email, Birthday) are     *)
(* sequences of one-character strings, so that length, character class    *)
(* and e-mail syntax are computed and not assumed.  A request body is a    *)
(* function whose domain is the set of fields the client supplied.         *)
(***************************************************************************)
EXTENDS Integers, Sequences, FiniteSets, Bags, TLC

(***************************************************************************)
(* Bounds of the model.                                                    *)
(***************************************************************************)
MaxUsers == 2       \* documents the Users collection may hold
MaxFavs == 3        \* length a FavoriteMovies array may reach
MaxInflight == 2    \* registrations between their lookup and their create
MaxTime == 8        \* last instant of the clock, in days

(***************************************************************************)
(* Program constants.                                                      *)
(***************************************************************************)
ExpiresIn == 7                      \* expiresIn: '7d', in days
MinUsernameLength == 5              \* isLength({min: 5})
jwtSecret == "your_jwt_secret"

(***************************************************************************)
(* Input alphabets.                                                        *)
(***************************************************************************)
Letters == {"a", "b", "c", "e", "i", "l", "o", "x", "y"}
Digits == {"1", "2"}

alice == <<"a", "l", "i", "c", "e">>
bobby == <<"b", "o", "b", "b", "y">>
shortName == <<"a", "b">>                   \* alphanumeric, too short
symbolName == <<"a", "l", "i", "c", "!">>   \* long enough, not alphanumeric
badName == <<"a", "!">>                     \* too short and not alphanumeric

pw1 == <<"x", "1">>
pw2 == <<"y", "2">>                         \* never the password of a request body

mail1 == <<"a", "@", "b", ".", "c">>
mail2 == <<"b", "@", "c", ".", "a">>        \* held by seeded records only
badMail == <<"a", "b", ".", "c">>           \* no @

day1 == <<"1", "-", "2">>

UsernameInputs == {alice, bobby, shortName, symbolName, badName}
PasswordInputs == {pw1, <<>>}
EmailInputs == {mail1, badMail}
BirthdayInputs == {day1}
PathNames == {alice, bobby}
MovieIDs == {"m1", "m2"}

(***************************************************************************)
(* Request bodies: every combination of supplied and missing fields.       *)
(***************************************************************************)
Maybe(S) == {<<>>} \cup {<<v>> : v \in S}

Field(name, opt) == IF opt = <<>> THEN <<>> ELSE name :> opt[1]

Bodies ==
    { Field("Username", u) @@ Field("Password", p)
        @@ Field("Email", e) @@ Field("Birthday", b) :
        u \in Maybe(UsernameInputs), p \in Maybe(PasswordInputs),
        e \in Maybe(EmailInputs), b \in Maybe(BirthdayInputs) }

\* Bodies of PUT /users/:Username: the same, and each also with Birthday: ''
\* for the test if (req.body.Birthday).  (On POST /users an empty Birthday
\* and a missing one reach Users.create as the same value.)
UpdateBodies ==
    Bodies \cup { Field("Username", u) @@ Field("Password", p)
                    @@ Field("Email", e) @@ Field("Birthday", <<(<<>>)>>) :
                  u \in Maybe(UsernameInputs), p \in Maybe(PasswordInputs),
                  e \in Maybe(EmailInputs) }

\* req.body.X: undefined when the field is missing; both undefined and ''
\* are rendered as the empty string by the validators and are falsy.
Value(body, name) == IF name \in DOMAIN body THEN body[name] ELSE <<>>

Truthy(body, name) == Value(body, name) # <<>>

(***************************************************************************)
(* The validators of express-validator used by the two chains.             *)
(***************************************************************************)
isLength(s, min) == Len(s) >= min

isAlphanumeric(s) ==
    /\ Len(s) > 0
    /\ \A i \in 1..Len(s) : s[i] \in Letters \cup Digits

isEmpty(s) == Len(s) = 0

Positions(s, ch) == {i \in 1..Len(s) : s[i] = ch}

isEmail(s) ==
    /\ Cardinality(Positions(s, "@")) = 1
    /\ LET at == CHOOSE i \in Positions(s, "@") : TRUE
       IN  /\ at > 1
           /\ \A i \in 1..(at - 1) : s[i] \in Letters \cup Digits \cup {"."}
           /\ \E dot \in Positions(s, ".") :
                 /\ dot > at + 1
                 /\ dot < Len(s)
           /\ \A i \in (at + 1)..Len(s) : s[i] \in Letters \cup Digits \cup {"."}

MsgLength == "Username is required"
MsgAlnum == "Username contains non alphanumeric characters - not allowed."
MsgPassword == "Password is required"
MsgEmail == "Email does not appear to be valid"

\* The message of one check(...) chain: empty when the field passes.
Check(failed, msg) == IF failed THEN <<msg>> ELSE <<>>

\* The four chains of check(...) listed on POST /users and PUT /users/:Username,
\* each run whatever the others found, in the order they are listed.
ValidationChains(body) ==
    Check(~isLength(Value(body, "Username"), MinUsernameLength), MsgLength)
      \o Check(~isAlphanumeric(Value(body, "Username")), MsgAlnum)
      \o Check(isEmpty(Value(body, "Password")), MsgPassword)
      \o Check(~isEmail(Value(body, "Email")), MsgEmail)

\* A validator that stops at the first failing chain.
validationResult_FailFast(body) ==
    IF ValidationChains(body) = <<>> THEN <<>> ELSE <<ValidationChains(body)[1]>>

\* validationResult(req).array(): every failure found.
validationResult(body) == ValidationChains(body)

(***************************************************************************)
(* The Movies catalogue: seeded out of band, never written by the API.     *)
(***************************************************************************)
Movies ==
    { [id |-> "m1", Title |-> "Psycho", Genre |-> "Thriller", Director |-> "Hitchcock"],
      [id |-> "m2", Title |-> "Vertigo", Genre |-> "Thriller", Director |-> "Hitchcock"] }

GenreInputs == {"Thriller", "Western"}
DirectorInputs == {"Hitchcock", "Nobody"}

Null == [null |-> TRUE]             \* null: no document
False == [false |-> TRUE]           \* the false passport hands over for "no user"
Undefined == [undefined |-> TRUE]   \* an argument the caller left out

(***************************************************************************)
(* State.                                                                  *)
(***************************************************************************)
VARIABLES
    users,      \* the Users collection, in natural (insertion) order
    inflight,   \* POST /users handlers whose lookup returned, create pending
    now,        \* the clock, in days
    jar,        \* the Authorization header value the client holds
    req,        \* the request the last step handled
    res,        \* the responses sent for it, in order
    ops,        \* the store operations performed for it, in order
    before,     \* the Users collection as that step found it
    prev        \* the request handled just before it, when that request
                \* added a favorite: its req and its before

vars == <<users, inflight, now, jar, req, res, ops, before, prev>>

(***************************************************************************)
(* Models.User statics and methods (models.js).                            *)
(***************************************************************************)
hashPassword(password) == <<"$2b$">> \o password

validatePassword(user, password) == user.Password = hashPassword(password)

(***************************************************************************)
(* The document store: Mongoose queries on the Users collection.           *)
(***************************************************************************)
Matches(coll, name) == {i \in 1..Len(coll) : coll[i].Username = name}

\* The position of the document a single-document query acts on: the first
\* match in natural order, 0 when there is none.
FirstMatch(coll, name) ==
    IF Matches(coll, name) = {} THEN 0
    ELSE CHOOSE i \in Matches(coll, name) : \A j \in Matches(coll, name) : i <= j

findOne(coll, name) ==
    IF FirstMatch(coll, name) = 0 THEN Null ELSE coll[FirstMatch(coll, name)]

RemoveAt(seq, i) == SubSeq(seq, 1, i - 1) \o SubSeq(seq, i + 1, Len(seq))

\* $set: the fields of the update replace those of the document.
SetFields(doc, update) ==
    [f \in DOMAIN doc |-> IF f \in DOMAIN update THEN update[f] ELSE doc[f]]

Push_IfAbsent(list, m) ==
    IF \E i \in 1..Len(list) : list[i] = m THEN list ELSE Append(list, m)

\* $push: the value becomes the last element of the array.
Push(list, m) == Append(list, m)

Pull_FirstOnly(list, m) ==
    IF \E i \in 1..Len(list) : list[i] = m
    THEN RemoveAt(list, CHOOSE i \in 1..Len(list) :
                          list[i] = m /\ \A j \in 1..(i - 1) : list[j] # m)
    ELSE list

\* $pull: every element equal to the value is removed.
Pull(list, m) == SelectSeq(list, LAMBDA x : x # m)

\* The collection after a single-document update of the first match.
UpdateFirst(coll, name, doc) ==
    IF FirstMatch(coll, name) = 0 THEN coll
    ELSE [coll EXCEPT ![FirstMatch(coll, name)] = doc]

Op(name, err) == [op |-> name, err |-> err]

(***************************************************************************)
(* Tokens (auth.js generateJWTToken, passport.js JWTStrategy).             *)
(***************************************************************************)
NoAuth == [kind |-> "none"]
Garbage == [kind |-> "garbage"]

\* HMAC-SHA-256 over the claims: only the holder of the key produces it.
HS256(key, sub, iat, exp) == [key |-> key, sub |-> sub, iat |-> iat, exp |-> exp]

generateJWTToken_NoExpiry(user) ==
    [kind |-> "jwt", sub |-> user.Username, iat |-> now, exp |-> now + MaxTime + ExpiresIn,
     sig |-> HS256(jwtSecret, user.Username, now, now + MaxTime + ExpiresIn)]

\* jwt.sign(user, jwtSecret, {subject, expiresIn: '7d', algorithm: 'HS256'})
generateJWTToken(user) ==
    [kind |-> "jwt", sub |-> user.Username, iat |-> now, exp |-> now + ExpiresIn,
     sig |-> HS256(jwtSecret, user.Username, now, now + ExpiresIn)]

\* What a client can put in the Authorization header: nothing, something that
\* is no token, the token it holds, that token with its signature altered,
\* and that token with its expiry pushed back under the old signature.
AuthInputs ==
    {NoAuth, Garbage} \cup
    (IF jar.kind = "jwt"
     THEN {jar,
           [jar EXCEPT !.sig = [@ EXCEPT !.key = "forged"]],
           [jar EXCEPT !.exp = @ + 1]}
     ELSE {})

\* passport.authenticate('jwt'): signature under the server's secret and
\* expiry not passed.
VerifyToken(h, t) ==
    /\ h.kind = "jwt"
    /\ h.sig = HS256(jwtSecret, h.sub, h.iat, h.exp)
    /\ t <= h.exp

\* passport.authenticate('local'): the outcome handed to the login callback.
LocalStrategy(coll, username, password, err) ==
    IF err THEN [error |-> TRUE, user |-> Undefined, info |-> ""]
    ELSE IF findOne(coll, username) = Null
         THEN [error |-> FALSE, user |-> False, info |-> "Incorrect username."]
    ELSE IF ~validatePassword(findOne(coll, username), password)
         THEN [error |-> FALSE, user |-> False, info |-> "Incorrect password."]
    ELSE [error |-> FALSE, user |-> findOne(coll, username), info |-> ""]

\* xss(): the characters that open or close a tag are escaped.
xss(s) == [i \in 1..Len(s) |->
             IF s[i] = "<" THEN "&lt;" ELSE IF s[i] = ">" THEN "&gt;" ELSE s[i]]

(***************************************************************************)
(* Requests and responses.                                                 *)
(***************************************************************************)
Req(route, name, movie, body, auth) ==
    [route |-> route, name |-> name, movie |-> movie, body |-> body, auth |-> auth]

NoReq == Req("none", <<>>, "", <<>>, NoAuth)

NoPrev == [req |-> NoReq, before |-> <<>>]

Text(status, parts) == [status |-> status, body |-> [kind |-> "text", text |-> parts]]

Json(status, doc) == [status |-> status, body |-> [kind |-> "json", doc |-> doc]]

Unauthorized == Text(401, <<"Unauthorized">>)

StoreError == Text(500, <<"Error: ">>)

\* A handler starts from a state whose last observation has been put away
\* (Forget), so that each observation is of one request alone.
Idle == req = NoReq

\* The observation of one handler run.
Handled(r, responses, performed) ==
    /\ req' = r
    /\ res' = responses
    /\ ops' = performed
    /\ before' = users
    /\ prev' = prev

Init ==
    /\ users = <<>>
    /\ inflight = EmptyBag
    /\ now = 0
    /\ jar = NoAuth
    /\ req = NoReq
    /\ res = <<>>
    /\ ops = <<>>
    /\ before = <<>>
    /\ prev = NoPrev

(***************************************************************************)
(* POST /login (auth.js).                                                  *)
(***************************************************************************)
IsUser(u) == "Username" \in DOMAIN u

LoginRejected_ErrorOnly(out) == out.error

\* if (error || !user)
LoginRejected(out) == out.error \/ ~IsUser(out.user)

\* res.status(400).json({message: 'Something is not right', user: user})
LoginFailure(out) ==
    [status |-> 400,
     body |-> [kind |-> "login-failure", message |-> "Something is not right", user |-> out.user]]

\* res.json({token, user: {Username, FavoriteMovies, Email, Birthday}})
LoginSuccess(token, user) ==
    [status |-> 200,
     body |-> [kind |-> "login", token |-> token,
               user |-> [Username |-> xss(user.Username),
                         FavoriteMovies |-> user.FavoriteMovies,
                         Email |-> xss(user.Email),
                         Birthday |-> xss(user.Birthday)]]]

\* res.send(error): the error object under the default status
LoginError == [status |-> 200, body |-> [kind |-> "login-error"]]

\* The callback of req.login: if (error) { res.send(error); } has no return,
\* so the signing and res.json(...) that follow run on either branch.
LoggedIn(loginErr, token, user) ==
    (IF loginErr THEN <<LoginError>> ELSE <<>>) \o <<LoginSuccess(token, user)>>

\* err: the strategy's lookup fails; loginErr: req.login hands its callback an
\* error.  res lists the responses the handler sends, in order; the client's
\* socket carries the first, so a token sent second does not reach the jar.
Login ==
    /\ Idle
    /\ \E username \in PathNames, password \in {pw1, pw2}, err \in BOOLEAN,
          loginErr \in BOOLEAN, keep \in BOOLEAN :
           LET r == Req("POST /login", <<>>, "",
                        ("Username" :> username) @@ ("Password" :> password), NoAuth)
               out == LocalStrategy(users, username, password, err)
               performed == <<Op("Users.findOne", err)>>
           IN  /\ IF LoginRejected(out)
                  THEN Handled(r, <<LoginFailure(out)>>, performed) /\ jar' = jar
                  ELSE IF ~IsUser(out.user)
                  THEN \* user.toJSON() throws: the error-handling middleware answers
                       /\ Handled(r, <<Text(500, <<"Something didn't work!">>)>>, performed)
                       /\ jar' = jar
                  ELSE /\ Handled(r, LoggedIn(loginErr, generateJWTToken(out.user), out.user),
                                  performed)
                       /\ jar' = IF keep \/ loginErr THEN jar ELSE generateJWTToken(out.user)
               /\ UNCHANGED <<users, inflight, now>>

(***************************************************************************)
(* The Movies routes.                                                      *)
(***************************************************************************)
Authenticated(h) == VerifyToken(h, now)

Rejected(r) == Handled(r, <<Unauthorized>>, <<>>)

GetMovies ==
    /\ Idle
    /\ \E h \in AuthInputs, err \in BOOLEAN :
           LET r == Req("GET /movies", <<>>, "", <<>>, h)
           IN  /\ IF ~Authenticated(h) THEN Rejected(r)
                  ELSE IF err THEN Handled(r, <<StoreError>>, <<Op("Movies.find", TRUE)>>)
                  ELSE Handled(r, <<Json(201, Movies)>>, <<Op("Movies.find", FALSE)>>)
               /\ UNCHANGED <<users, inflight, now, jar>>

GetMovie ==
    /\ Idle
    /\ \E h \in AuthInputs, id \in MovieIDs \cup {"m9"}, err \in BOOLEAN :
           LET r == Req("GET /movies/:MovieID", <<>>, id, <<>>, h)
               found == {m \in Movies : m.id = id}
           IN  /\ IF ~Authenticated(h) THEN Rejected(r)
                  ELSE IF err THEN Handled(r, <<StoreError>>, <<Op("Movies.findOne", TRUE)>>)
                  ELSE Handled(r, <<Json(200, IF found = {} THEN Null
                                              ELSE CHOOSE m \in found : TRUE)>>,
                               <<Op("Movies.findOne", FALSE)>>)
               /\ UNCHANGED <<users, inflight, now, jar>>

GetGenre ==
    /\ Idle
    /\ \E h \in AuthInputs, genre \in GenreInputs, err \in BOOLEAN :
           LET r == Req("GET /movies/genres/:genre", <<>>, genre, <<>>, h)
           IN  /\ IF ~Authenticated(h) THEN Rejected(r)
                  ELSE IF err THEN Handled(r, <<StoreError>>, <<Op("Movies.find", TRUE)>>)
                  ELSE Handled(r, <<Json(200, {m \in Movies : m.Genre = genre})>>,
                               <<Op("Movies.find", FALSE)>>)
               /\ UNCHANGED <<users, inflight, now, jar>>

GetDirector ==
    /\ Idle
    /\ \E h \in AuthInputs, name \in DirectorInputs, err \in BOOLEAN :
           LET r == Req("GET /directors/:name", <<>>, name, <<>>, h)
               found == {m \in Movies : m.Director = name}
           IN  /\ IF ~Authenticated(h) THEN Rejected(r)
                  ELSE IF err \/ found = {}
                  THEN \* a failed query, or movies.Director of null, ends in .catch
                       Handled(r, <<StoreError>>, <<Op("Movies.findOne", err)>>)
                  ELSE Handled(r, <<Json(200, name)>>, <<Op("Movies.findOne", FALSE)>>)
               /\ UNCHANGED <<users, inflight, now, jar>>

(***************************************************************************)
(* POST /users: validate, look the Username up, then create.  The lookup   *)
(* and the create are two store operations with a suspension between them. *)
(***************************************************************************)
ValidationFailed(errors) == [status |-> 422, body |-> [kind |-> "errors", errors |-> errors]]

NewUser(body, hashedPassword) ==
    [Username |-> Value(body, "Username"),
     Password |-> hashedPassword,
     Email |-> Value(body, "Email"),
     Birthday |-> Value(body, "Birthday"),
     FavoriteMovies |-> <<>>]

Created(user) ==
    [status |-> 201,
     body |-> [kind |-> "created", Username |-> user.Username, Email |-> user.Email,
               Birthday |-> user.Birthday]]

Exists_Never(user) == FALSE

\* if (user)
Exists(user) == user # Null

RegisterUser ==
    /\ Idle
    /\ \E body \in Bodies, err \in BOOLEAN :
           LET r == Req("POST /users", <<>>, "", body, NoAuth)
               errors == validationResult(body)
               lookup == <<Op("Users.findOne", err)>>
           IN  /\ IF errors # <<>>
                  THEN Handled(r, <<ValidationFailed(errors)>>, <<>>) /\ inflight' = inflight
                  ELSE IF err
                  THEN Handled(r, <<StoreError>>, lookup) /\ inflight' = inflight
                  ELSE IF Exists(findOne(users, Value(body, "Username")))
                  THEN /\ Handled(r, <<Text(400, <<Value(body, "Username"), " already exists">>)>>,
                                  lookup)
                       /\ inflight' = inflight
                  ELSE /\ BagCardinality(inflight) < MaxInflight
                       /\ Handled(r, <<>>, lookup)
                       /\ inflight' = inflight (+)
                                        SetToBag({[body |-> body,
                                                   hashedPassword |-> hashPassword(body.Password)]})
               /\ UNCHANGED <<users, now, jar>>

CreateUser ==
    /\ Idle
    /\ \E pending \in BagToSet(inflight), err \in BOOLEAN :
           LET r == Req("POST /users", <<>>, "", pending.body, NoAuth)
               user == NewUser(pending.body, pending.hashedPassword)
               performed == <<Op("Users.findOne", FALSE), Op("Users.create", err)>>
           IN  /\ inflight' = inflight (-) SetToBag({pending})
               /\ IF err
                  THEN Handled(r, <<StoreError>>, performed) /\ users' = users
                  ELSE /\ Len(users) < MaxUsers
                       /\ users' = Append(users, user)
                       /\ Handled(r, <<Created(user)>>, performed)
               /\ UNCHANGED <<now, jar>>

(***************************************************************************)
(* PUT /users/:Username.                                                   *)
(***************************************************************************)
updateObj_AllFields(body, hashedPassword) ==
    [Username |-> Value(body, "Username"), Password |-> hashedPassword,
     Email |-> Value(body, "Email"), Birthday |-> Value(body, "Birthday")]

\* Only the fields of the body that are truthy enter the $set.
updateObj(body, hashedPassword) ==
    [f \in {g \in {"Username", "Password", "Email", "Birthday"} : Truthy(body, g)} |->
        IF f = "Password" THEN hashedPassword ELSE body[f]]

\* The four chains run first and only record what they find; the token is
\* verified next, and the handler body reads the findings after that.
UpdateUser ==
    /\ Idle
    /\ \E name \in PathNames, body \in UpdateBodies, h \in AuthInputs, err \in BOOLEAN :
           LET r == Req("PUT /users/:Username", name, "", body, h)
               errors == validationResult(body)
               hashedPassword == hashPassword(Value(body, "Password"))
               performed == <<Op("Users.findOneAndUpdate", err)>>
               updatedUser == IF findOne(users, name) = Null THEN Null
                              ELSE SetFields(findOne(users, name),
                                             updateObj(body, hashedPassword))
           IN  /\ IF ~Authenticated(h)
                  THEN Rejected(r) /\ users' = users
                  ELSE IF errors # <<>>
                  THEN Handled(r, <<ValidationFailed(errors)>>, <<>>) /\ users' = users
                  ELSE IF err
                  THEN Handled(r, <<StoreError>>, performed) /\ users' = users
                  ELSE /\ users' = UpdateFirst(users, name, updatedUser)
                       /\ Handled(r, <<Json(201, updatedUser)>>, performed)
               /\ UNCHANGED <<inflight, now, jar>>

(***************************************************************************)
(* Favorites.                                                              *)
(***************************************************************************)
AddFavorite ==
    /\ Idle
    /\ \E name \in PathNames, m \in MovieIDs, h \in AuthInputs, err \in BOOLEAN :
           LET r == Req("POST /users/:Username/movies/:MovieID", name, m, <<>>, h)
               performed == <<Op("Users.findOneAndUpdate", err)>>
               user == findOne(users, name)
               updatedUser == IF user = Null THEN Null
                              ELSE [user EXCEPT !.FavoriteMovies = Push(@, m)]
           IN  /\ IF ~Authenticated(h)
                  THEN Rejected(r) /\ users' = users
                  ELSE IF err
                  THEN Handled(r, <<StoreError>>, performed) /\ users' = users
                  ELSE /\ user # Null => Len(user.FavoriteMovies) < MaxFavs
                       /\ users' = UpdateFirst(users, name, updatedUser)
                       /\ Handled(r, <<Json(200, updatedUser)>>, performed)
               /\ UNCHANGED <<inflight, now, jar>>

RemoveFavorite ==
    /\ Idle
    /\ \E name \in PathNames, m \in MovieIDs, h \in AuthInputs, err \in BOOLEAN :
           LET r == Req("DELETE /users/:Username/movies/:MovieID", name, m, <<>>, h)
               performed == <<Op("Users.findOneAndUpdate", err)>>
               user == findOne(users, name)
               updatedUser == IF user = Null THEN Null
                              ELSE [user EXCEPT !.FavoriteMovies = Pull(@, m)]
           IN  /\ IF ~Authenticated(h)
                  THEN Rejected(r) /\ users' = users
                  ELSE IF err
                  THEN Handled(r, <<StoreError>>, performed) /\ users' = users
                  ELSE /\ users' = UpdateFirst(users, name, updatedUser)
                       /\ Handled(r, <<Json(200, updatedUser)>>, performed)
               /\ UNCHANGED <<inflight, now, jar>>

GetFavorites ==
    /\ Idle
    /\ \E name \in PathNames, h \in AuthInputs, err \in BOOLEAN :
           LET r == Req("GET /users/:Username/favorites", name, "", <<>>, h)
               user == findOne(users, name)
           IN  /\ IF ~Authenticated(h) THEN Rejected(r)
                  ELSE IF err \/ user = Null
                  THEN \* a failed query, or user.FavoriteMovies of null, ends in .catch
                       Handled(r, <<StoreError>>, <<Op("Users.findOne", err)>>)
                  ELSE Handled(r, <<[status |-> 201,
                                     body |-> [kind |-> "favorites",
                                               FavoriteMovies |-> user.FavoriteMovies]]>>,
                               <<Op("Users.findOne", FALSE)>>)
               /\ UNCHANGED <<users, inflight, now, jar>>

(***************************************************************************)
(* DELETE /users/:Username and GET /users/:Username.                       *)
(***************************************************************************)
DeleteUser ==
    /\ Idle
    /\ \E name \in PathNames, h \in AuthInputs, err \in BOOLEAN :
           LET r == Req("DELETE /users/:Username", name, "", <<>>, h)
               performed == <<Op("Users.findOneAndRemove", err)>>
           IN  /\ IF ~Authenticated(h)
                  THEN Rejected(r) /\ users' = users
                  ELSE IF err
                  THEN Handled(r, <<StoreError>>, performed) /\ users' = users
                  ELSE IF FirstMatch(users, name) = 0
                  THEN /\ Handled(r, <<Text(400, <<name, " was not found">>)>>, performed)
                       /\ users' = users
                  ELSE /\ Handled(r, <<Text(200, <<name, " was deleted.">>)>>, performed)
                       /\ users' = RemoveAt(users, FirstMatch(users, name))
               /\ UNCHANGED <<inflight, now, jar>>

\* The authentication middleware of this route is commented out.
GetUser ==
    /\ Idle
    /\ \E name \in PathNames, h \in AuthInputs, err \in BOOLEAN :
           LET r == Req("GET /users/:Username", name, "", <<>>, h)
           IN  /\ IF err THEN Handled(r, <<StoreError>>, <<Op("Users.findOne", TRUE)>>)
                  ELSE Handled(r, <<Json(200, findOne(users, name))>>,
                               <<Op("Users.findOne", FALSE)>>)
               /\ UNCHANGED <<users, inflight, now, jar>>

(***************************************************************************)
(* Time passes between requests.                                           *)
(***************************************************************************)
Tick ==
    /\ Idle
    /\ now < MaxTime
    /\ now' = now + 1
    /\ UNCHANGED <<users, inflight, jar, req, res, ops, before, prev>>

\* The observation of the last request is put away.
Forget ==
    /\ ~Idle
    /\ req' = NoReq
    /\ res' = <<>>
    /\ ops' = <<>>
    /\ before' = <<>>
    /\ prev' = IF /\ req.route = "POST /users/:Username/movies/:MovieID"
                  /\ res # <<>>
                  /\ res[1].status = 200
               THEN [req |-> req, before |-> before]
               ELSE NoPrev
    /\ UNCHANGED <<users, inflight, now, jar>>

Next ==
    \/ Login
    \/ GetMovies
    \/ GetMovie
    \/ GetGenre
    \/ GetDirector
    \/ RegisterUser
    \/ CreateUser
    \/ UpdateUser
    \/ AddFavorite
    \/ RemoveFavorite
    \/ GetFavorites
    \/ DeleteUser
    \/ GetUser
    \/ Tick
    \/ Forget

Spec == Init /\ [][Next]_vars

(***************************************************************************)
(* Scenarios.  The store outlives the process and tokens outlive it too,   *)
(* so the service may start over a collection that already holds records   *)
(* and face a client that already holds a token.                           *)
(***************************************************************************)
seedAlice ==
    [Username |-> alice, Password |-> hashPassword(pw2), Email |-> mail2,
     Birthday |-> day1, FavoriteMovies |-> <<"m1">>]

seedBobby ==
    [Username |-> bobby, Password |-> hashPassword(pw1), Email |-> mail1,
     Birthday |-> <<>>, FavoriteMovies |-> <<>>]

InitSeeded ==
    /\ users = <<seedAlice, seedBobby>>
    /\ inflight = EmptyBag
    /\ now = 0
    /\ jar = generateJWTToken(seedAlice)
    /\ req = NoReq
    /\ res = <<>>
    /\ ops = <<>>
    /\ before = <<>>
    /\ prev = NoPrev

\* Accounts, from an empty collection: registration, login, delete.
NextAccounts ==
    \/ RegisterUser
    \/ CreateUser
    \/ Login
    \/ DeleteUser
    \/ GetUser
    \/ Forget

SpecAccounts == Init /\ [][NextAccounts]_vars

\* Input validation on both routes that carry a user's fields.
NextValidation ==
    \/ RegisterUser
    \/ CreateUser
    \/ UpdateUser
    \/ Forget

SpecValidation == InitSeeded /\ [][NextValidation]_vars

\* Updates of records that exist already.
NextUpdate ==
    \/ UpdateUser
    \/ DeleteUser
    \/ GetUser
    \/ Forget

SpecUpdate == InitSeeded /\ [][NextUpdate]_vars

\* The favorites of records that exist already.
NextFavorites ==
    \/ AddFavorite
    \/ RemoveFavorite
    \/ GetFavorites
    \/ Forget

SpecFavorites == InitSeeded /\ [][NextFavorites]_vars

\* Tokens over time: login, the clock, the routes that read, and the deletion
\* of the user a token names.
NextTokens ==
    \/ Login
    \/ Tick
    \/ GetMovies
    \/ GetMovie
    \/ GetGenre
    \/ GetDirector
    \/ GetFavorites
    \/ GetUser
    \/ DeleteUser
    \/ Forget

SpecTokens == InitSeeded /\ [][NextTokens]_vars

(***************************************************************************)
(* Properties.                                                             *)
(***************************************************************************)
OpenRoutes == {"POST /login", "POST /users"}

Answer == res[1]

\* Every store operation of the observed request completed without error.
StoreOk == \A i \in 1..Len(ops) : ~ops[i].err

\* The header is a token exactly as generateJWTToken signed it.
Genuine(h) == h.kind = "jwt" /\ h.sig = HS256(jwtSecret, h.sub, h.iat, h.exp)

\* C1: on every route except POST /login and POST /users, a request whose
\* bearer token fails verification (missing, malformed, bad signature or
\* expired) is answered 401 and nothing else, and performs no store operation.
C1_GateOnEveryRoute ==
    (/\ req.route \notin OpenRoutes \cup {"none"}
     /\ ~(Genuine(req.auth) /\ now <= req.auth.exp))
        => (res = <<Unauthorized>> /\ ops = <<>> /\ users = before)

\* C2: POST /login answers with a token only when the Username names a record
\* whose stored hash matches the Password; an unknown Username and a wrong
\* Password are answered by one and the same response: 400, the generic
\* message, user false, no token.
C2_LoginFailuresAlike ==
    (req.route = "POST /login" /\ StoreOk) =>
        LET known == \E i \in 1..Len(before) :
                        before[i].Username = req.body.Username
            match == known /\ findOne(before, req.body.Username).Password
                                 = hashPassword(req.body.Password)
        IN  /\ match => /\ res # <<>>
                        /\ res[Len(res)].status = 200
                        /\ res[Len(res)].body.kind = "login"
                        /\ res[Len(res)].body.token.sub = req.body.Username
            /\ ~match => res = << [status |-> 400,
                                   body |-> [kind |-> "login-failure",
                                             message |-> "Something is not right",
                                             user |-> False]] >>

\* A login with a known Username and a wrong Password was refused, while
\* another Username is unknown to the store.
C2_Witness ==
    /\ req.route = "POST /login"
    /\ StoreOk
    /\ Matches(before, req.body.Username) # {}
    /\ findOne(before, req.body.Username).Password # hashPassword(req.body.Password)
    /\ \E other \in PathNames : Matches(before, other) = {}
    /\ Answer.status = 400

\* C3: the token login issues at time T has the Username as subject and
\* expires at T + 7 days; a gated route accepts it at every time up to T + 7
\* days and answers 401 after, answers 401 at any time when the signature or
\* the signed claims were altered, and nothing else (not even whether the
\* record of its subject still exists) bears on acceptance.
C3_TokenLifecycle ==
    /\ req.route = "POST /login" =>
          \A i \in 1..Len(res) :
              res[i].body.kind = "login" =>
                  /\ res[i].body.token.sub = req.body.Username
                  /\ res[i].body.token.iat = now
                  /\ res[i].body.token.exp = now + 7
                  /\ Genuine(res[i].body.token)
    /\ jar.kind = "jwt" => (Genuine(jar) /\ jar.exp = jar.iat + 7)
    /\ (req.route \notin OpenRoutes \cup {"none", "GET /users/:Username"}) =>
          /\ (Genuine(req.auth) /\ now <= req.auth.iat + 7) => res # <<Unauthorized>>
          /\ (Genuine(req.auth) /\ now > req.auth.iat + 7) => res = <<Unauthorized>>
          /\ (req.auth.kind = "jwt" /\ ~Genuine(req.auth)) => res = <<Unauthorized>>

\* A token that login issued to bobby is refused on the day after its seventh.
C3_Witness ==
    /\ req.route = "GET /movies"
    /\ Genuine(req.auth)
    /\ req.auth.sub = bobby
    /\ now = req.auth.iat + 8
    /\ res = <<Unauthorized>>

(***************************************************************************)
(* The rules of the input validator, stated on the characters of a field.  *)
(***************************************************************************)
TooShort(body) == Len(Value(body, "Username")) < 5

HasSymbol(body) ==
    \E i \in 1..Len(Value(body, "Username")) :
        Value(body, "Username")[i] \notin Letters \cup Digits

NoPassword(body) == "Password" \notin DOMAIN body \/ body.Password = <<>>

BadEmail(body) == "Email" \notin DOMAIN body \/ body.Email \in {<<>>, badMail}

Violates(body) == TooShort(body) \/ HasSymbol(body) \/ NoPassword(body) \/ BadEmail(body)

Times(seq, x) == Cardinality({i \in 1..Len(seq) : seq[i] = x})

\* The request reached the handler body of a route that validates: every
\* POST /users does, a PUT /users/:Username does once its token is verified.
Validated ==
    \/ req.route = "POST /users"
    \/ req.route = "PUT /users/:Username" /\ Genuine(req.auth) /\ now <= req.auth.exp

\* C4: a registration or update whose Username is shorter than 5 characters
\* or holds a non-alphanumeric character, or whose Password is empty or
\* missing, or whose Email is not an e-mail address, is answered 422 with one
\* message for each rule it violates, performs no store operation and leaves
\* the collection as it was.
C4_ValidationFailed ==
    (Validated /\ Violates(req.body)) =>
        /\ Len(res) = 1
        /\ Answer.status = 422
        /\ Answer.body.kind = "errors"
        /\ TooShort(req.body) => Times(Answer.body.errors, MsgLength) = 1
        /\ HasSymbol(req.body) => Times(Answer.body.errors, MsgAlnum) = 1
        /\ NoPassword(req.body) => Times(Answer.body.errors, MsgPassword) = 1
        /\ BadEmail(req.body) => Times(Answer.body.errors, MsgEmail) = 1
        /\ ops = <<>>
        /\ users = before

\* An update under a verified token broke all four rules at once and was
\* answered with four messages.
C4_Witness ==
    /\ req.route = "PUT /users/:Username"
    /\ Genuine(req.auth)
    /\ TooShort(req.body) /\ HasSymbol(req.body) /\ NoPassword(req.body) /\ BadEmail(req.body)
    /\ Answer.status = 422
    /\ Len(Answer.body.errors) = 4

\* C5: a registration with valid fields whose Username the lookup finds in the
\* collection is answered 400 with a message naming the Username, creates no
\* record and leaves every field of the existing record as it was.
C5_DuplicateUser ==
    (/\ req.route = "POST /users"
     /\ ~Violates(req.body)
     /\ ops = <<Op("Users.findOne", FALSE)>>
     /\ Matches(before, req.body.Username) # {}) =>
        /\ res = <<Text(400, <<req.body.Username, " already exists">>)>>
        /\ users = before

\* A second registration of a Username, with another Birthday than the record
\* holds, was refused.
C5_Witness ==
    /\ req.route = "POST /users"
    /\ ~Violates(req.body)
    /\ Matches(before, req.body.Username) # {}
    /\ findOne(before, req.body.Username).Birthday # Value(req.body, "Birthday")
    /\ Len(res) = 1
    /\ Answer.status = 400

\* C6: no two records of the collection carry the same Username, in any
\* state any interleaving of the handlers reaches.
C6_UsernameUnique ==
    \A i, j \in 1..Len(users) : users[i].Username = users[j].Username => i = j

(***************************************************************************)
(* Updates.                                                                *)
(***************************************************************************)
Verified == Genuine(req.auth) /\ now <= req.auth.exp

Target == FirstMatch(before, req.name)

\* Each field the body supplies is valid; a field it leaves out is not judged.
SuppliedValid(body) ==
    /\ "Username" \in DOMAIN body => ~TooShort(body) /\ ~HasSymbol(body)
    /\ "Password" \in DOMAIN body => ~NoPassword(body)
    /\ "Email" \in DOMAIN body => ~BadEmail(body)

\* The record with exactly the supplied fields replaced, the Password by its
\* hash; a Birthday supplied as the empty string counts as not supplied.
Replaced(old, body) ==
    [f \in DOMAIN old |->
        IF f \in DOMAIN body /\ body[f] # <<>>
        THEN IF f = "Password" THEN hashPassword(body[f]) ELSE body[f]
        ELSE old[f]]

UpdatedAsSupplied ==
    /\ res = <<Json(201, Replaced(before[Target], req.body))>>
    /\ Answer.body.doc.Password # req.body.Password
    /\ Answer.body.doc.FavoriteMovies = before[Target].FavoriteMovies
    /\ users = [before EXCEPT ![Target] = Replaced(before[Target], req.body)]

\* C7 as stated: an authenticated update of an existing record whose body
\* carries any subset of {Username, Password, Email, Birthday}, each supplied
\* field valid, is answered 201 with the record in which exactly the supplied
\* fields are replaced; nothing else changes.
C7_AnySubsetUpdates ==
    (/\ req.route = "PUT /users/:Username"
     /\ Verified
     /\ SuppliedValid(req.body)
     /\ StoreOk
     /\ Target # 0) =>
        /\ Len(res) = 1
        /\ Answer.status = 201
        /\ Answer.body.doc = Replaced(before[Target], req.body)
        /\ users = [before EXCEPT ![Target] = Replaced(before[Target], req.body)]

\* C7, amended: an authenticated update of an existing record whose body
\* carries a valid Username, a valid Password and a valid Email, with or
\* without a Birthday, is answered 201 with the record in which exactly the
\* supplied fields are replaced (the Password by its hash): a Birthday left
\* out or empty keeps its value, FavoriteMovies and every other record are
\* unchanged.
\* A body that leaves out Username, Password or Email is answered 422 and
\* changes nothing.
C7_FullBodyUpdates ==
    (req.route = "PUT /users/:Username" /\ Verified) =>
        /\ (/\ {"Username", "Password", "Email"} \subseteq DOMAIN req.body
            /\ SuppliedValid(req.body)
            /\ StoreOk
            /\ Target # 0) => UpdatedAsSupplied
        /\ ~({"Username", "Password", "Email"} \subseteq DOMAIN req.body) =>
              /\ Len(res) = 1
              /\ Answer.status = 422
              /\ users = before

\* An update without a Birthday replaced the Password and the Email of a
\* record and kept the Birthday the record held.
C7_Witness ==
    /\ req.route = "PUT /users/:Username"
    /\ Verified
    /\ StoreOk
    /\ Target # 0
    /\ "Birthday" \notin DOMAIN req.body
    /\ Len(res) = 1
    /\ Answer.status = 201
    /\ before[Target].Birthday = day1
    /\ users[Target].Birthday = day1
    /\ users[Target].Email # before[Target].Email
    /\ users[Target].Password # before[Target].Password

\* C8: a delete, or an update with a valid body, whose path names no record
\* is answered with a 400 or 404 naming the Username, never with a success,
\* and leaves the collection as it was; a delete whose path names a record
\* removes exactly that record and answers 200 naming it.
C8_NotFound ==
    /\ (/\ \/ req.route = "DELETE /users/:Username"
           \/ req.route = "PUT /users/:Username" /\ ~Violates(req.body)
        /\ Verified
        /\ StoreOk
        /\ Target = 0) =>
           /\ Len(res) = 1
           /\ Answer.status \in {400, 404}
           /\ Answer.body.kind = "text"
           /\ Answer.body.text[1] = req.name
           /\ users = before
    /\ (/\ req.route = "DELETE /users/:Username"
        /\ Verified
        /\ StoreOk
        /\ Target # 0) =>
           /\ res = <<Text(200, <<req.name, " was deleted.">>)>>
           /\ users = RemoveAt(before, Target)

(***************************************************************************)
(* Favorites.                                                              *)
(***************************************************************************)
RECURSIVE Without(_, _)
\* The list with every occurrence of m left out, the rest in their order.
Without(list, m) ==
    IF list = <<>> THEN <<>>
    ELSE IF Head(list) = m THEN Without(Tail(list), m)
    ELSE <<Head(list)>> \o Without(Tail(list), m)

AddRoute == "POST /users/:Username/movies/:MovieID"
RemoveRoute == "DELETE /users/:Username/movies/:MovieID"

\* C9: for an existing user, removing a favorite m answers 200 with the user
\* record, whose FavoriteMovies is the old list without any occurrence of m
\* and with the other entries in their order; when m was not in the list the
\* list and the collection are unchanged and the answer is still the record;
\* so a second removal of m changes nothing the first left.
C9_RemoveIdempotent ==
    (/\ req.route = RemoveRoute
     /\ Verified
     /\ StoreOk
     /\ Target # 0) =>
        LET old == before[Target].FavoriteMovies
            new == Answer.body.doc.FavoriteMovies
        IN  /\ Len(res) = 1
            /\ Answer.status = 200
            /\ Answer.body.doc.Username = req.name
            /\ new = Without(old, req.movie)
            /\ Times(new, req.movie) = 0
            /\ Times(old, req.movie) = 0 => (new = old /\ users = before)
            /\ users = [before EXCEPT ![Target].FavoriteMovies = new]

\* A movie held twice, around another one, was removed: only the other is left.
C9_Witness ==
    /\ req.route = RemoveRoute
    /\ Verified
    /\ StoreOk
    /\ Target # 0
    /\ Times(before[Target].FavoriteMovies, req.movie) = 2
    /\ Len(before[Target].FavoriteMovies) = 3
    /\ before[Target].FavoriteMovies[2] # req.movie
    /\ Len(users[Target].FavoriteMovies) = 1

\* C10: for an existing user, adding a favorite m answers with the record
\* whose FavoriteMovies is the old list with m appended as its last element,
\* one entry longer even when m was in it already; no other field and no other
\* record changes.  When m was not in the list, a removal of m that follows
\* the addition answers with the list as it was before the addition, and the
\* collection is again as it was.
C10_AddThenRemove ==
    /\ (/\ req.route = AddRoute
        /\ Verified
        /\ StoreOk
        /\ Target # 0) =>
           LET old == before[Target].FavoriteMovies
               new == Answer.body.doc.FavoriteMovies
           IN  /\ Len(res) = 1
               /\ Answer.status = 200
               /\ Len(new) = Len(old) + 1
               /\ new[Len(new)] = req.movie
               /\ SubSeq(new, 1, Len(old)) = old
               /\ Answer.body.doc = [before[Target] EXCEPT !.FavoriteMovies = new]
               /\ users = [before EXCEPT ![Target] = Answer.body.doc]
    /\ (/\ req.route = RemoveRoute
        /\ Verified
        /\ StoreOk
        /\ prev.req.route = AddRoute
        /\ prev.req.name = req.name
        /\ prev.req.movie = req.movie
        /\ FirstMatch(prev.before, req.name) # 0
        /\ Times(prev.before[FirstMatch(prev.before, req.name)].FavoriteMovies,
                 req.movie) = 0) =>
           /\ Len(res) = 1
           /\ Answer.status = 200
           /\ Answer.body.doc = prev.before[FirstMatch(prev.before, req.name)]
           /\ users = prev.before

\* bobby's empty list became <<m>> by an addition and is empty again after the
\* removal that followed it.
C10_Witness ==
    /\ req.route = RemoveRoute
    /\ Verified
    /\ StoreOk
    /\ prev.req.route = AddRoute
    /\ prev.req.name = req.name
    /\ prev.req.movie = req.movie
    /\ FirstMatch(prev.before, req.name) # 0
    /\ prev.before[FirstMatch(prev.before, req.name)].FavoriteMovies = <<>>
    /\ before[Target].FavoriteMovies = <<req.movie>>
    /\ Answer.body.doc.FavoriteMovies = <<>>

(***************************************************************************)
(* Responses per request on the two open routes.                           *)
(***************************************************************************)
\* The observed POST /users is suspended between its lookup and its create.
CreatePending ==
    /\ req.route = "POST /users"
    /\ ops = <<Op("Users.findOne", FALSE)>>
    /\ BagIn([body |-> req.body, hashedPassword |-> hashPassword(req.body.Password)],
             inflight)

\* POST /users sends one response on each of its outcomes, and none only
\* while its create is still to come.
RegistrationAnswersOnce ==
    req.route = "POST /users" =>
        \/ Len(res) = 1
        \/ res = <<>> /\ CreatePending

\* POST /login sends one response on each of its outcomes.
LoginAnswersOnce == req.route = "POST /login" => Len(res) = 1

\* C11: every request to POST /login and to POST /users is sent exactly one
\* response on every path through the handler's callbacks, never none and
\* never two; a login whose req.login step reports an error is sent the error
\* alone, with no token generated and no success response after it.
C11_ExactlyOneResponse == RegistrationAnswersOnce /\ LoginAnswersOnce

====
